---- MODULE Spec2Model ----
(***************************************************************************)
(* fluent-string: the FluentString trait (src/lib.rs), implemented for     *)
(* String and for &mut String, as a state machine.                         *)
(*                                                                         *)
(* A String is its UTF-8 bytes and the capacity of its allocation. Two     *)
(* chains run in lock step from the same initial content: `own` is the     *)
(* String moved through the owned chain, `s` is the caller's variable the  *)
(* &mut String chain borrows. One action per trait method applies the      *)
(* method of both implementations to the same arguments.                   *)
(***************************************************************************)
EXTENDS Integers, Sequences, FiniteSets, TLC

\* ---------------------------------------------------------------- bounds
\* Content operations are taken only while the result fits MaxLen bytes.
MaxLen == 4
\* The largest allocation the model's memory can hold: a larger request is
\* refused (the stand-in for isize::MAX bytes); a smaller one may still fail.
MaxAlloc == 16

\* ------------------------------------------------------------- UTF-8
\* The characters of the model: 'a' (1 byte) and U+00E9 (2 bytes).
Chars == {97, 233}

Max(a, b) == IF a >= b THEN a ELSE b
Min(a, b) == IF a <= b THEN a ELSE b

\* char::len_utf8
LenUtf8(ch) == IF ch < 128 THEN 1 ELSE IF ch < 2048 THEN 2 ELSE 3

\* char::encode_utf8
EncodeUtf8(ch) ==
    IF ch < 128 THEN <<ch>>
    ELSE IF ch < 2048 THEN <<192 + (ch \div 64), 128 + (ch % 64)>>
    ELSE <<224 + (ch \div 4096), 128 + ((ch \div 64) % 64), 128 + (ch % 64)>>

\* A &str literal: the UTF-8 encoding of a sequence of characters.
RECURSIVE StrOf(_)
StrOf(cs) == IF cs = <<>> THEN <<>> ELSE EncodeUtf8(Head(cs)) \o StrOf(Tail(cs))

\* A UTF-8 continuation byte (0b10xxxxxx).
IsContinuation(b) == b >= 128 /\ b < 192

\* str::is_char_boundary, on a 0-based byte index.
IsCharBoundary(buf, i) ==
    IF i = 0 THEN TRUE
    ELSE IF i >= Len(buf) THEN i = Len(buf)
    ELSE ~IsContinuation(buf[i + 1])

\* The character that starts at the 0-based byte index i (str::chars().next()).
CharAt(buf, i) ==
    LET b == buf[i + 1] IN
    IF b < 128 THEN b
    ELSE IF b < 224 THEN (b - 192) * 64 + (buf[i + 2] - 128)
    ELSE (b - 224) * 4096 + (buf[i + 2] - 128) * 64 + (buf[i + 3] - 128)

\* str::chars(): the characters of a buffer, in order.
RECURSIVE CharsFrom(_, _)
CharsFrom(buf, i) ==
    IF i >= Len(buf) THEN <<>>
    ELSE <<CharAt(buf, i)>> \o CharsFrom(buf, i + LenUtf8(CharAt(buf, i)))

CharsOf(buf) == CharsFrom(buf, 0)

\* The first n bytes and the bytes from n on.
Take(buf, n) == SubSeq(buf, 1, n)
Drop(buf, n) == SubSeq(buf, n + 1, Len(buf))

\* ------------------------------------------------------- std::string
\* The outcome of a std call on a String: the bytes and the capacity
\* afterwards, and st: "done", "panic"
\* (an assertion or a capacity overflow unwinds), "abort" (handle_alloc_error)
\* or, for the try_ calls only, "err" (a TryReserveError is returned).
Out(st, buf, cap) == [st |-> st, buf |-> buf, cap |-> cap]

\* RawVec growth: the capacity asked of the allocator when `additional` more
\* bytes do not fit (amortized: at least double, at least 8; exact: as asked).
GrowTo(x, additional, exact) ==
    LET required == Len(x.buf) + additional IN
    IF exact THEN required ELSE Max(8, Max(2 * x.cap, required))

\* RawVec::try_reserve / try_reserve_exact: "fits" without a new allocation,
\* "ok" with the new capacity, "overflow" (CapacityOverflow) or "alloc"
\* (AllocError). allocOk is the allocator's answer to the request.
TryGrow(x, additional, exact, allocOk) ==
    IF additional <= x.cap - Len(x.buf) THEN [r |-> "fits", cap |-> x.cap]
    ELSE IF GrowTo(x, additional, exact) > MaxAlloc THEN [r |-> "overflow", cap |-> x.cap]
    ELSE IF ~allocOk THEN [r |-> "alloc", cap |-> x.cap]
    ELSE [r |-> "ok", cap |-> GrowTo(x, additional, exact)]

\* Vec::reserve as the content operations use it, then the new content:
\* a failed growth panics (overflow) or aborts (alloc) before any byte moves.
Grown(x, newbuf, allocOk) ==
    LET g == TryGrow(x, Len(newbuf) - Len(x.buf), FALSE, allocOk) IN
    IF g.r = "overflow" THEN Out("panic", x.buf, x.cap)
    ELSE IF g.r = "alloc" THEN Out("abort", x.buf, x.cap)
    ELSE Out("done", newbuf, g.cap)

\* String::clear
StdClear(x) == Out("done", <<>>, x.cap)

\* String::insert_str (and String::insert, through insert_bytes)
StdInsertStr(x, idx, bytes, allocOk) ==
    IF ~IsCharBoundary(x.buf, idx) THEN Out("panic", x.buf, x.cap)
    ELSE Grown(x, Take(x.buf, idx) \o bytes \o Drop(x.buf, idx), allocOk)

\* A faulty String::insert: the character is appended, whatever idx is.
StdInsert_append(x, idx, ch, allocOk) ==
    IF ~IsCharBoundary(x.buf, idx) THEN Out("panic", x.buf, x.cap)
    ELSE Grown(x, x.buf \o EncodeUtf8(ch), allocOk)

\* String::insert
StdInsert(x, idx, ch, allocOk) == StdInsertStr(x, idx, EncodeUtf8(ch), allocOk)

\* String::push_str
StdPushStr(x, bytes, allocOk) == Grown(x, x.buf \o bytes, allocOk)

\* String::push
StdPush(x, ch, allocOk) == StdPushStr(x, EncodeUtf8(ch), allocOk)

\* A RangeBounds<usize>: lo..hi (Included(lo), Excluded(hi)) or lo..
\* (Included(lo), Unbounded).
Range(sb, lo, eb, hi) == [sb |-> sb, lo |-> lo, eb |-> eb, hi |-> hi]
RangeStart(x, r) == IF r.sb = "Unbounded" THEN 0 ELSE r.lo
RangeEnd(x, r) == IF r.eb = "Unbounded" THEN Len(x.buf) ELSE r.hi

\* A faulty String::replace_range: the end of the range is clamped to the
\* length instead of being checked.
StdReplaceRange_clamped(x, r, bytes, allocOk) ==
    LET lo == Min(RangeStart(x, r), Len(x.buf))
        hi == Max(lo, Min(RangeEnd(x, r), Len(x.buf))) IN
    IF ~IsCharBoundary(x.buf, lo) \/ ~IsCharBoundary(x.buf, hi)
    THEN Out("panic", x.buf, x.cap)
    ELSE Grown(x, Take(x.buf, lo) \o bytes \o Drop(x.buf, hi), allocOk)

\* String::replace_range: each given bound must be a char boundary, then
\* Vec::splice checks start <= end <= len; all of it before any byte moves.
StdReplaceRange(x, r, bytes, allocOk) ==
    LET lo == RangeStart(x, r)
        hi == RangeEnd(x, r) IN
    IF r.sb = "Included" /\ ~IsCharBoundary(x.buf, lo) THEN Out("panic", x.buf, x.cap)
    ELSE IF r.eb = "Excluded" /\ ~IsCharBoundary(x.buf, hi) THEN Out("panic", x.buf, x.cap)
    ELSE IF lo > hi \/ hi > Len(x.buf) THEN Out("panic", x.buf, x.cap)
    ELSE Grown(x, Take(x.buf, lo) \o bytes \o Drop(x.buf, hi), allocOk)

\* String::reserve / String::reserve_exact
StdReserve(x, additional, exact, allocOk) ==
    LET g == TryGrow(x, additional, exact, allocOk) IN
    IF g.r = "overflow" THEN Out("panic", x.buf, x.cap)
    ELSE IF g.r = "alloc" THEN Out("abort", x.buf, x.cap)
    ELSE Out("done", x.buf, g.cap)

\* String::try_reserve / String::try_reserve_exact
StdTryReserve(x, additional, exact, allocOk) ==
    LET g == TryGrow(x, additional, exact, allocOk) IN
    IF g.r \in {"overflow", "alloc"} THEN Out("err", x.buf, x.cap)
    ELSE Out("done", x.buf, g.cap)

\* A faulty String::shrink_to: the floor is taken without the length.
StdShrinkTo_floor(x, min_capacity) ==
    IF x.cap > min_capacity THEN Out("done", x.buf, min_capacity)
    ELSE Out("done", x.buf, x.cap)

\* String::shrink_to
StdShrinkTo(x, min_capacity) ==
    IF x.cap > min_capacity THEN Out("done", x.buf, Max(Len(x.buf), min_capacity))
    ELSE Out("done", x.buf, x.cap)

\* String::shrink_to_fit
StdShrinkToFit(x) == Out("done", x.buf, Len(x.buf))

\* A faulty String::truncate: a new_len beyond the length panics.
StdTruncate_strict(x, new_len) ==
    IF new_len > Len(x.buf) \/ ~IsCharBoundary(x.buf, new_len)
    THEN Out("panic", x.buf, x.cap)
    ELSE Out("done", Take(x.buf, new_len), x.cap)

\* String::truncate
StdTruncate(x, new_len) ==
    IF new_len <= Len(x.buf) THEN
        IF ~IsCharBoundary(x.buf, new_len) THEN Out("panic", x.buf, x.cap)
        ELSE Out("done", Take(x.buf, new_len), x.cap)
    ELSE Out("done", x.buf, x.cap)

\* ------------------------------------------------------------ closures
\* The FnMut(char) -> bool closures handed to f_retain; n is the closure's
\* captured counter, the number of calls made so far.
\*   "not_a"      |c| c != 'a'
\*   "alternate"  |_| { n += 1; n % 2 == 1 }
\*   "first"      |_| { n += 1; n == 1 }
RetainFns == {"not_a", "alternate", "first"}

RetainCall(f, n, ch) ==
    [keep |-> CASE f = "not_a" -> ch # 97
                [] f = "alternate" -> (n + 1) % 2 = 1
                [] OTHER -> n + 1 = 1,
     n |-> n + 1]

\* The Fn(&Self, char) -> bool closures handed to f_push_if.
\*   "not_empty"  |s, _c| !s.is_empty()
\*   "no_repeat"  |s, c| !s.ends_with(c)
EndsWith(buf, bytes) ==
    Len(bytes) <= Len(buf) /\ Drop(buf, Len(buf) - Len(bytes)) = bytes

PushIfFns == {"not_empty", "no_repeat"}

PushIfCall(f, buf, ch) ==
    CASE f = "not_empty" -> buf # <<>>
      [] OTHER -> ~EndsWith(buf, EncodeUtf8(ch))

\* The Fn(&Self, &str) -> bool closures handed to f_push_str_if.
\*   "both_non_empty"  |s, s1| !(s.is_empty() || s1.is_empty())
\*   "always"          |_, _| true
PushStrIfFns == {"both_non_empty", "always"}

PushStrIfCall(f, buf, bytes) ==
    CASE f = "both_non_empty" -> ~(buf = <<>> \/ bytes = <<>>)
      [] OTHER -> TRUE

\* The Fn(&Self) -> Option<usize> closures handed to f_truncate_if; k is a
\* captured number.
\*   "cut_a"  |s| if s.ends_with("a") { Some(s.len() - 1) } else { None }
\*   "some"   |_| Some(k)
\*   "none"   |_| None
Some(v) == [some |-> TRUE, v |-> v]
None == [some |-> FALSE, v |-> 0]

TruncateIfFns == {"cut_a", "some", "none"}

TruncateIfCall(f, k, buf) ==
    CASE f = "cut_a" -> IF EndsWith(buf, <<97>>) THEN Some(Len(buf) - 1) ELSE None
      [] f = "some" -> Some(k)
      [] OTHER -> None

\* A faulty retain loop: a kept character is not moved back over the deleted
\* bytes.
RECURSIVE RetainLoop_nomove(_, _, _, _, _, _)
RetainLoop_nomove(buf, idx, del_bytes, f, n, calls) ==
    IF idx >= Len(buf) THEN [buf |-> Take(buf, Len(buf) - del_bytes), calls |-> calls]
    ELSE
        LET ch == CharAt(buf, idx)
            c == RetainCall(f, n, ch)
        IN RetainLoop_nomove(buf, idx + LenUtf8(ch),
                             IF c.keep THEN del_bytes ELSE del_bytes + LenUtf8(ch),
                             f, c.n, Append(calls, ch))

\* String::retain: walks the characters from the front, calls f on each, and
\* moves each kept character back over the bytes deleted so far; the length
\* is set when the walk ends. calls is the characters f was called with.
RECURSIVE RetainLoop(_, _, _, _, _, _)
RetainLoop(buf, idx, del_bytes, f, n, calls) ==
    IF idx >= Len(buf) THEN [buf |-> Take(buf, Len(buf) - del_bytes), calls |-> calls]
    ELSE
        LET ch == CharAt(buf, idx)
            ch_len == LenUtf8(ch)
            c == RetainCall(f, n, ch)
            moved == [i \in 1..Len(buf) |->
                        IF i > idx - del_bytes /\ i <= idx - del_bytes + ch_len
                        THEN EncodeUtf8(ch)[i - (idx - del_bytes)]
                        ELSE buf[i]]
        IN RetainLoop(IF c.keep /\ del_bytes > 0 THEN moved ELSE buf,
                      idx + ch_len,
                      IF c.keep THEN del_bytes ELSE del_bytes + ch_len,
                      f, c.n, Append(calls, ch))

StdRetain(x, f) ==
    LET l == RetainLoop(x.buf, 0, 0, f, 0, <<>>) IN
    [st |-> "done", buf |-> l.buf, cap |-> x.cap, calls |-> l.calls]

\* ------------------------------------------------- what a call returns
\* A String the caller holds, and a String that has been dropped.
Live(buf, cap) == [live |-> TRUE, buf |-> buf, cap |-> cap]
Dropped == [live |-> FALSE, buf |-> <<>>, cap |-> 0]

\* What a trait method gives back: kind is "Self" (self is returned), "Ok" or
\* "Err" (the Result of the try_ methods), "Panic" or "Abort" (no return);
\* val is the String afterwards; obs is what the closure argument was shown.
Ret(kind, val) == [kind |-> kind, val |-> val, obs |-> <<>>]

\* fn f_x(mut self, ..) -> Self { self.x(..); self }: the String is moved in
\* and moved back out; when the std call unwinds, the callee's self is dropped.
Moved(o) ==
    IF o.st = "done" THEN Ret("Self", Live(o.buf, o.cap))
    ELSE IF o.st = "panic" THEN Ret("Panic", Dropped)
    ELSE Ret("Abort", Dropped)

\* fn f_x(self, ..) -> Self { self.x(..); self } on &mut String: the std call
\* acts on the referent, the caller's variable, and the handle is returned.
Through(o) ==
    IF o.st = "done" THEN Ret("Self", Live(o.buf, o.cap))
    ELSE IF o.st = "panic" THEN Ret("Panic", Live(o.buf, o.cap))
    ELSE Ret("Abort", Live(o.buf, o.cap))

\* ------------------------------------------ impl FluentString for String
String_f_clear(self) == Moved(StdClear(self))
\* A faulty f_insert: self.push(ch) for self.insert(idx, ch).
String_f_insert_push(self, idx, ch, allocOk) ==
    Moved(StdInsert_append(self, idx, ch, allocOk))
String_f_insert(self, idx, ch, allocOk) == Moved(StdInsert(self, idx, ch, allocOk))
String_f_insert_str(self, idx, string, allocOk) ==
    Moved(StdInsertStr(self, idx, string, allocOk))
String_f_push(self, ch, allocOk) == Moved(StdPush(self, ch, allocOk))
String_f_push_str(self, string, allocOk) == Moved(StdPushStr(self, string, allocOk))
\* A faulty f_replace_range: the range is clamped to the content first.
String_f_replace_range_clamped(self, range, replace_with, allocOk) ==
    Moved(StdReplaceRange_clamped(self, range, replace_with, allocOk))
String_f_replace_range(self, range, replace_with, allocOk) ==
    Moved(StdReplaceRange(self, range, replace_with, allocOk))
String_f_reserve(self, additional, allocOk) ==
    Moved(StdReserve(self, additional, FALSE, allocOk))
String_f_reserve_exact(self, additional, allocOk) ==
    Moved(StdReserve(self, additional, TRUE, allocOk))
\* A faulty f_retain: retain without the move of the kept characters.
String_f_retain_nomove(self, f) ==
    LET l == RetainLoop_nomove(self.buf, 0, 0, f, 0, <<>>) IN
    [Ret("Self", Live(l.buf, self.cap)) EXCEPT !.obs = l.calls]
String_f_retain(self, f) ==
    LET o == StdRetain(self, f) IN [Moved(o) EXCEPT !.obs = o.calls]
String_f_shrink_to(self, min_capacity) == Moved(StdShrinkTo(self, min_capacity))
String_f_shrink_to_fit(self) == Moved(StdShrinkToFit(self))
String_f_truncate(self, new_len) == Moved(StdTruncate(self, new_len))

\* self.try_reserve(additional).map(|()| self): the closure owns self, and
\* Result::map drops the closure, and self with it, when the Result is Err.
\* A faulty f_try_reserve: self.try_reserve(additional).unwrap(); Ok(self)
String_f_try_reserve_unwrap(self, additional, allocOk) ==
    LET o == StdTryReserve(self, additional, FALSE, allocOk) IN
    IF o.st = "done" THEN Ret("Ok", Live(o.buf, o.cap)) ELSE Ret("Panic", Dropped)
String_f_try_reserve(self, additional, allocOk) ==
    LET o == StdTryReserve(self, additional, FALSE, allocOk) IN
    IF o.st = "done" THEN Ret("Ok", Live(o.buf, o.cap))
    ELSE IF o.st = "err" THEN Ret("Err", Dropped)
    ELSE Moved(o)
String_f_try_reserve_exact(self, additional, allocOk) ==
    LET o == StdTryReserve(self, additional, TRUE, allocOk) IN
    IF o.st = "done" THEN Ret("Ok", Live(o.buf, o.cap))
    ELSE IF o.st = "err" THEN Ret("Err", Dropped)
    ELSE Moved(o)

\* ------------------------------------- impl FluentString for &mut String
\* self is the handle; the argument here is its referent.
RefMut_f_clear(self) == Through(StdClear(self))
RefMut_f_insert(self, idx, ch, allocOk) == Through(StdInsert(self, idx, ch, allocOk))
RefMut_f_insert_str(self, idx, string, allocOk) ==
    Through(StdInsertStr(self, idx, string, allocOk))
\* A faulty f_push for &mut String: the character goes to a copy.
RefMut_f_push_copy(self, ch, allocOk) == Ret("Self", Live(self.buf, self.cap))
RefMut_f_push(self, ch, allocOk) == Through(StdPush(self, ch, allocOk))
RefMut_f_push_str(self, string, allocOk) == Through(StdPushStr(self, string, allocOk))
RefMut_f_replace_range(self, range, replace_with, allocOk) ==
    Through(StdReplaceRange(self, range, replace_with, allocOk))
RefMut_f_reserve(self, additional, allocOk) ==
    Through(StdReserve(self, additional, FALSE, allocOk))
RefMut_f_reserve_exact(self, additional, allocOk) ==
    Through(StdReserve(self, additional, TRUE, allocOk))
RefMut_f_retain(self, f) ==
    LET o == StdRetain(self, f) IN [Through(o) EXCEPT !.obs = o.calls]
\* A faulty f_shrink_to: the capacity is set to min_capacity.
RefMut_f_shrink_to_floor(self, min_capacity) ==
    Through(StdShrinkTo_floor(self, min_capacity))
RefMut_f_shrink_to(self, min_capacity) == Through(StdShrinkTo(self, min_capacity))
RefMut_f_shrink_to_fit(self) == Through(StdShrinkToFit(self))
\* A faulty f_truncate: a new_len beyond the length is refused.
RefMut_f_truncate_strict(self, new_len) == Through(StdTruncate_strict(self, new_len))
RefMut_f_truncate(self, new_len) == Through(StdTruncate(self, new_len))

\* self.try_reserve(additional).map(|()| self): the closure owns the handle
\* only; on Err the handle is dropped and the referent stays with the caller.
RefMut_f_try_reserve(self, additional, allocOk) ==
    LET o == StdTryReserve(self, additional, FALSE, allocOk) IN
    IF o.st = "done" THEN Ret("Ok", Live(o.buf, o.cap))
    ELSE IF o.st = "err" THEN Ret("Err", Live(o.buf, o.cap))
    ELSE Through(o)
RefMut_f_try_reserve_exact(self, additional, allocOk) ==
    LET o == StdTryReserve(self, additional, TRUE, allocOk) IN
    IF o.st = "done" THEN Ret("Ok", Live(o.buf, o.cap))
    ELSE IF o.st = "err" THEN Ret("Err", Live(o.buf, o.cap))
    ELSE Through(o)

\* --------------------------------------- the trait's provided methods
\* Self is "String" or "RefMut"; self.f_push and so on are the methods of
\* that implementation.
f_push(Self, self, ch, allocOk) ==
    IF Self = "String" THEN String_f_push(self, ch, allocOk)
    ELSE RefMut_f_push(self, ch, allocOk)
f_push_str(Self, self, string, allocOk) ==
    IF Self = "String" THEN String_f_push_str(self, string, allocOk)
    ELSE RefMut_f_push_str(self, string, allocOk)
f_truncate(Self, self, new_len) ==
    IF Self = "String" THEN String_f_truncate(self, new_len)
    ELSE RefMut_f_truncate(self, new_len)

\* A faulty f_push_if: the closure is asked after the push.
f_push_if_after(Self, self, ch, f, allocOk) ==
    LET p == f_push(Self, self, ch, allocOk) IN
    [(IF PushIfCall(f, p.val.buf, ch) THEN p ELSE Ret("Self", self))
     EXCEPT !.obs = p.val.buf]

\* if f(&self, ch) { self.f_push(ch) } else { self }
f_push_if(Self, self, ch, f, allocOk) ==
    [(IF PushIfCall(f, self.buf, ch) THEN f_push(Self, self, ch, allocOk)
      ELSE Ret("Self", self)) EXCEPT !.obs = self.buf]

\* if f(&self, string) { self.f_push_str(string) } else { self }
f_push_str_if(Self, self, string, f, allocOk) ==
    [(IF PushStrIfCall(f, self.buf, string) THEN f_push_str(Self, self, string, allocOk)
      ELSE Ret("Self", self)) EXCEPT !.obs = self.buf]

\* A faulty f_truncate_if: the answer of the closure is dropped.
f_truncate_if_ignored(Self, self, f, k) ==
    [Ret("Self", self) EXCEPT !.obs = self.buf]

\* match f(&self) { Some(l) => self.f_truncate(l), None => self }
f_truncate_if(Self, self, f, k) ==
    LET m == TruncateIfCall(f, k, self.buf) IN
    [(IF m.some THEN f_truncate(Self, self, m.v) ELSE Ret("Self", self))
     EXCEPT !.obs = self.buf]

\* ---------------------------------------------------------------- state
VARIABLES
    own,    \* the String of the owned chain: what the last call returned
    s,      \* the caller's variable the &mut String chain borrows
    res,    \* how the last call ended, for each chain
    obs,    \* what the last call showed its closure, for each chain
    pre,    \* own and s as they were before the last call
    last    \* the last call: method and arguments

vars == <<own, s, res, obs, pre, last>>

\* A call and its arguments. a: idx, additional, new_len, min_capacity or the
\* range's start; b: the character, the range's end or the closure's captured
\* number; txt: the &str argument; f: the closure, or the range's form;
\* al: the allocator's answer to the request the call makes, if it makes one.
Op(op, a, b, txt, f, al) == [op |-> op, a |-> a, b |-> b, txt |-> txt, f |-> f, al |-> al]

\* The arguments the calls are given.
Idxs == 0..(MaxLen + 1)
Strs == {StrOf(<<>>), StrOf(<<97>>), StrOf(<<233>>)}
ReplaceStrs == {StrOf(<<>>), StrOf(<<233>>)}
Additionals == {0, 2, 6, MaxAlloc + 1}
MinCapacities == {0, 2, 9}
RangeForms == {"a..b", "a.."}

RangeOf(form, a, b) ==
    Range("Included", a, IF form = "a..b" THEN "Excluded" ELSE "Unbounded", b)

\* The allocator is asked only when the bytes do not fit; then it may refuse.
AllocAnswers(x, additional) ==
    IF additional <= x.cap - Len(x.buf) THEN {TRUE} ELSE BOOLEAN

\* "text".to_string(), String::new() and String::with_capacity(10).
Init ==
    /\ \E buf \in {StrOf(<<>>), StrOf(<<97>>), StrOf(<<233>>), StrOf(<<97, 233>>)},
          cap \in {0, 10} :
          /\ (cap = 10 => buf = <<>>)
          /\ own = Live(buf, Max(cap, Len(buf)))
          /\ s = Live(buf, Max(cap, Len(buf)))
    /\ res = [own |-> "Self", s |-> "Self"]
    /\ obs = [own |-> <<>>, s |-> <<>>]
    /\ pre = [own |-> own, s |-> s]
    /\ last = Op("new", 0, 0, <<>>, "", TRUE)

\* A chain goes on while the last call returned its receiver (Ok(self) is
\* unwrapped by the caller).
Chaining == res.own \in {"Self", "Ok"} /\ res.s \in {"Self", "Ok"}

\* The content stays within the model's bound.
Fits(n) == Len(own.buf) + n <= MaxLen /\ Len(s.buf) + n <= MaxLen

\* Both chains make the call: o is what the owned chain got, r the &mut one.
Step(o, r, op) ==
    /\ own' = o.val
    /\ s' = r.val
    /\ res' = [own |-> o.kind, s |-> r.kind]
    /\ obs' = [own |-> o.obs, s |-> r.obs]
    /\ pre' = [own |-> own, s |-> s]
    /\ last' = op

\* -------------------------------------------------------------- actions
F_clear ==
    /\ Chaining
    /\ Step(String_f_clear(own), RefMut_f_clear(s), Op("f_clear", 0, 0, <<>>, "", TRUE))

F_insert ==
    /\ Chaining
    /\ \E idx \in Idxs, ch \in Chars :
       \E al \in AllocAnswers(own, LenUtf8(ch)) :
          /\ Fits(LenUtf8(ch))
          /\ Step(String_f_insert(own, idx, ch, al), RefMut_f_insert(s, idx, ch, al),
                  Op("f_insert", idx, ch, EncodeUtf8(ch), "", al))

F_insert_str ==
    /\ Chaining
    /\ \E idx \in Idxs, string \in Strs :
       \E al \in AllocAnswers(own, Len(string)) :
          /\ Fits(Len(string))
          /\ Step(String_f_insert_str(own, idx, string, al),
                  RefMut_f_insert_str(s, idx, string, al),
                  Op("f_insert_str", idx, 0, string, "", al))

F_push ==
    /\ Chaining
    /\ \E ch \in Chars :
       \E al \in AllocAnswers(own, LenUtf8(ch)) :
          /\ Fits(LenUtf8(ch))
          /\ Step(String_f_push(own, ch, al), RefMut_f_push(s, ch, al),
                  Op("f_push", 0, ch, EncodeUtf8(ch), "", al))

F_push_str ==
    /\ Chaining
    /\ \E string \in Strs :
       \E al \in AllocAnswers(own, Len(string)) :
          /\ Fits(Len(string))
          /\ Step(String_f_push_str(own, string, al), RefMut_f_push_str(s, string, al),
                  Op("f_push_str", 0, 0, string, "", al))

F_replace_range ==
    /\ Chaining
    /\ \E form \in RangeForms, a \in Idxs, b \in Idxs, replace_with \in ReplaceStrs :
       \E al \in AllocAnswers(own, Len(replace_with)) :
          /\ Fits(Len(replace_with))
          /\ (form = "a.." => b = 0)
          /\ Step(String_f_replace_range(own, RangeOf(form, a, b), replace_with, al),
                  RefMut_f_replace_range(s, RangeOf(form, a, b), replace_with, al),
                  Op("f_replace_range", a, b, replace_with, form, al))

F_reserve ==
    /\ Chaining
    /\ \E additional \in Additionals :
       \E al \in AllocAnswers(own, additional) :
          Step(String_f_reserve(own, additional, al), RefMut_f_reserve(s, additional, al),
               Op("f_reserve", additional, 0, <<>>, "", al))

F_reserve_exact ==
    /\ Chaining
    /\ \E additional \in Additionals :
       \E al \in AllocAnswers(own, additional) :
          Step(String_f_reserve_exact(own, additional, al),
               RefMut_f_reserve_exact(s, additional, al),
               Op("f_reserve_exact", additional, 0, <<>>, "", al))

F_retain ==
    /\ Chaining
    /\ \E f \in RetainFns :
          Step(String_f_retain(own, f), RefMut_f_retain(s, f),
               Op("f_retain", 0, 0, <<>>, f, TRUE))

F_shrink_to ==
    /\ Chaining
    /\ \E min_capacity \in MinCapacities :
          Step(String_f_shrink_to(own, min_capacity), RefMut_f_shrink_to(s, min_capacity),
               Op("f_shrink_to", min_capacity, 0, <<>>, "", TRUE))

F_shrink_to_fit ==
    /\ Chaining
    /\ Step(String_f_shrink_to_fit(own), RefMut_f_shrink_to_fit(s),
            Op("f_shrink_to_fit", 0, 0, <<>>, "", TRUE))

F_truncate ==
    /\ Chaining
    /\ \E new_len \in Idxs :
          Step(String_f_truncate(own, new_len), RefMut_f_truncate(s, new_len),
               Op("f_truncate", new_len, 0, <<>>, "", TRUE))

F_try_reserve ==
    /\ Chaining
    /\ \E additional \in Additionals :
       \E al \in AllocAnswers(own, additional) :
          Step(String_f_try_reserve(own, additional, al),
               RefMut_f_try_reserve(s, additional, al),
               Op("f_try_reserve", additional, 0, <<>>, "", al))

F_try_reserve_exact ==
    /\ Chaining
    /\ \E additional \in Additionals :
       \E al \in AllocAnswers(own, additional) :
          Step(String_f_try_reserve_exact(own, additional, al),
               RefMut_f_try_reserve_exact(s, additional, al),
               Op("f_try_reserve_exact", additional, 0, <<>>, "", al))

F_push_if ==
    /\ Chaining
    /\ \E ch \in Chars, f \in PushIfFns :
       \E al \in AllocAnswers(own, LenUtf8(ch)) :
          /\ Fits(LenUtf8(ch))
          /\ Step(f_push_if("String", own, ch, f, al), f_push_if("RefMut", s, ch, f, al),
                  Op("f_push_if", 0, ch, EncodeUtf8(ch), f, al))

F_push_str_if ==
    /\ Chaining
    /\ \E string \in Strs, f \in PushStrIfFns :
       \E al \in AllocAnswers(own, Len(string)) :
          /\ Fits(Len(string))
          /\ Step(f_push_str_if("String", own, string, f, al),
                  f_push_str_if("RefMut", s, string, f, al),
                  Op("f_push_str_if", 0, 0, string, f, al))

F_truncate_if ==
    /\ Chaining
    /\ \E f \in TruncateIfFns, k \in Idxs :
          /\ (f # "some" => k = 0)
          /\ Step(f_truncate_if("String", own, f, k), f_truncate_if("RefMut", s, f, k),
                  Op("f_truncate_if", 0, k, <<>>, f, TRUE))

Next ==
    \/ F_clear
    \/ F_insert
    \/ F_insert_str
    \/ F_push
    \/ F_push_str
    \/ F_replace_range
    \/ F_reserve
    \/ F_reserve_exact
    \/ F_retain
    \/ F_shrink_to
    \/ F_shrink_to_fit
    \/ F_truncate
    \/ F_try_reserve
    \/ F_try_reserve_exact
    \/ F_push_if
    \/ F_push_str_if
    \/ F_truncate_if

Spec == Init /\ [][Next]_vars

\* ------------------------------------------------------------ properties
\* Vocabulary of the properties, stated without the operators of the calls.

\* i is a boundary position of buf: the byte length of its first k characters.
OnBoundary(buf, i) ==
    \E k \in 0..Len(CharsOf(buf)) : Len(StrOf(SubSeq(CharsOf(buf), 1, k))) = i

\* The first n bytes of buf are the bytes of pfx.
HasPrefix(buf, pfx) ==
    Len(pfx) <= Len(buf) /\ \A i \in 1..Len(pfx) : buf[i] = pfx[i]

\* The call returned its receiver.
Returned(kind) == kind \in {"Self", "Ok"}

\* C1: after every sequence of calls with valid arguments (every call
\* returned), the owned chain and the &mut String chain hold the same content,
\* and that content is what the caller's variable s holds.
C1_SameContent ==
    (Returned(res.own) \/ Returned(res.s)) =>
        /\ res.own = res.s
        /\ own.live /\ s.live
        /\ own.buf = s.buf

\* A chain of two calls or more has changed the content through the handle.
C1_Witness ==
    /\ last.op = "f_truncate" /\ res.s = "Self" /\ res.own = "Self"
    /\ pre.s.buf = StrOf(<<97, 233>>) /\ pre.s.cap > 3
    /\ s.buf = StrOf(<<97>>) /\ own.buf = s.buf

\* C2, for one chain: the closure of f_push_if / f_push_str_if was shown the
\* content as it was before the call; when it answered true the call returned
\* the content with the candidate appended, when false the content unchanged.
C2_For(kind, val, before, seen) ==
    last.op \in {"f_push_if", "f_push_str_if"} =>
        LET yes == IF last.op = "f_push_if"
                   THEN PushIfCall(last.f, before.buf, last.b)
                   ELSE PushStrIfCall(last.f, before.buf, last.txt)
            grows == Len(last.txt) > before.cap - Len(before.buf)
        IN /\ seen = before.buf
           /\ (yes /\ (last.al \/ ~grows)) => kind = "Self"
           /\ (yes /\ kind = "Self") => val.buf = before.buf \o last.txt
           /\ ~yes => (kind = "Self" /\ val.buf = before.buf /\ val.cap = before.cap)

C2_PushIf == C2_For(res.own, own, pre.own, obs.own) /\ C2_For(res.s, s, pre.s, obs.s)

\* f_push_if(ch, |s, _c| !s.is_empty()) on a non-empty buffer appended ch.
C2_Witness ==
    /\ last.op = "f_push_if" /\ last.f = "not_empty" /\ last.b = 233
    /\ pre.own.buf # <<>> /\ pre.s.buf # <<>>
    /\ own.buf = pre.own.buf \o StrOf(<<233>>) /\ s.buf = own.buf

\* What the closure of the last f_truncate_if answered on the content b.
C3_Answer(b) == TruncateIfCall(last.f, last.b, b)

\* C3 as stated, for one chain: for every answer, Some(l) leaves the first l
\* bytes of b (all of b when l is beyond its length), None leaves b.
C3_AsStatedFor(kind, val, before) ==
    last.op = "f_truncate_if" =>
        LET m == C3_Answer(before.buf) IN
        /\ kind = "Self"
        /\ m.some => (/\ Len(val.buf) = Min(m.v, Len(before.buf))
                      /\ HasPrefix(before.buf, val.buf))
        /\ ~m.some => val.buf = before.buf

C3_AsStated == C3_AsStatedFor(res.own, own, pre.own) /\ C3_AsStatedFor(res.s, s, pre.s)

\* C3 amended, for one chain: Some(l) with l a boundary position of b leaves
\* the first l bytes of b; Some(l) with l beyond the length leaves b; Some(l)
\* with l inside a character panics; None leaves b.
C3_For(kind, val, before, seen) ==
    last.op = "f_truncate_if" =>
        LET m == C3_Answer(before.buf) IN
        /\ seen = before.buf
        /\ (m.some /\ m.v <= Len(before.buf) /\ OnBoundary(before.buf, m.v)) =>
              (kind = "Self" /\ Len(val.buf) = m.v /\ HasPrefix(before.buf, val.buf))
        /\ (m.some /\ m.v > Len(before.buf)) => (kind = "Self" /\ val.buf = before.buf)
        /\ (m.some /\ m.v <= Len(before.buf) /\ ~OnBoundary(before.buf, m.v)) =>
              kind = "Panic"
        /\ ~m.some => (kind = "Self" /\ val.buf = before.buf)

C3_TruncateIf == C3_For(res.own, own, pre.own, obs.own) /\ C3_For(res.s, s, pre.s, obs.s)

\* The closure answered Some(len - 1) on a content ending in 'a', and the
\* last byte was cut.
C3_Witness ==
    /\ last.op = "f_truncate_if" /\ last.f = "cut_a"
    /\ pre.own.buf = StrOf(<<233, 97>>) /\ own.buf = StrOf(<<233>>)
    /\ s.buf = own.buf /\ res.own = "Self" /\ res.s = "Self"

\* The positions the last f_replace_range / f_truncate was given.
C4_Given ==
    IF last.op = "f_truncate" THEN {last.a}
    ELSE IF last.f = "a..b" THEN {last.a, last.b} ELSE {last.a}

\* C4 as stated: f_replace_range and f_truncate panic whenever a position
\* they are given is beyond the length or not on a character boundary.
C4_AsStated ==
    (/\ last.op \in {"f_replace_range", "f_truncate"}
     /\ \E i \in C4_Given : i > Len(pre.s.buf) \/ ~OnBoundary(pre.s.buf, i)) =>
        (res.own = "Panic" /\ res.s = "Panic")

\* C4 amended: f_replace_range panics whenever a position it is given is
\* beyond the length or not on a character boundary; f_truncate panics
\* whenever new_len is within the length and not on a character boundary, and
\* returns with the content unchanged when new_len is beyond the length. A
\* panic leaves the caller's variable as it was.
C4_FailLoudly ==
    /\ (/\ last.op = "f_replace_range"
        /\ \E i \in C4_Given : i > Len(pre.s.buf) \/ ~OnBoundary(pre.s.buf, i)) =>
           (res.own = "Panic" /\ res.s = "Panic" /\ s = pre.s)
    /\ (/\ last.op = "f_truncate"
        /\ last.a <= Len(pre.s.buf) /\ ~OnBoundary(pre.s.buf, last.a)) =>
           (res.own = "Panic" /\ res.s = "Panic" /\ s = pre.s)
    /\ (last.op = "f_truncate" /\ last.a > Len(pre.s.buf)) =>
           (res.own = "Self" /\ res.s = "Self" /\ s = pre.s /\ own = pre.own)

\* f_truncate was given a position inside a character and panicked.
C4_Witness ==
    /\ last.op = "f_truncate" /\ last.a = 2
    /\ pre.s.buf = StrOf(<<97, 233>>)
    /\ res.own = "Panic" /\ res.s = "Panic" /\ s.buf = pre.s.buf

\* C5 as stated, for one chain: f_truncate(n) returns the first n bytes when
\* n is below the length and the content unchanged otherwise, for every n;
\* a second f_truncate(n) changes nothing.
C5_AsStatedFor(kind, val, before) ==
    last.op = "f_truncate" =>
        /\ kind = "Self"
        /\ last.a < Len(before.buf) =>
              (Len(val.buf) = last.a /\ HasPrefix(before.buf, val.buf))
        /\ last.a >= Len(before.buf) => val.buf = before.buf

C5_AsStated == C5_AsStatedFor(res.own, own, pre.own) /\ C5_AsStatedFor(res.s, s, pre.s)

\* C5 amended, for one chain: for every n that is a boundary position or at
\* or beyond the length, f_truncate(n) returns the first n bytes when n is
\* below the length and the content unchanged otherwise, and a second
\* f_truncate(n) returns the same content; for n inside a character it panics.
C5_For(Self, kind, val, before) ==
    last.op = "f_truncate" =>
        /\ (last.a < Len(before.buf) /\ OnBoundary(before.buf, last.a)) =>
              (kind = "Self" /\ Len(val.buf) = last.a /\ HasPrefix(before.buf, val.buf))
        /\ last.a >= Len(before.buf) => (kind = "Self" /\ val.buf = before.buf)
        /\ (last.a < Len(before.buf) /\ ~OnBoundary(before.buf, last.a)) => kind = "Panic"
        /\ kind = "Self" =>
              LET again == f_truncate(Self, val, last.a) IN
              again.kind = "Self" /\ again.val.buf = val.buf

C5_Truncate ==
    C5_For("String", res.own, own, pre.own) /\ C5_For("RefMut", res.s, s, pre.s)

\* f_truncate(n) with 0 < n < length on a boundary dropped the bytes beyond n.
C5_Witness ==
    /\ last.op = "f_truncate" /\ last.a = 2
    /\ pre.own.buf = StrOf(<<233, 97>>) /\ own.buf = StrOf(<<233>>)
    /\ s.buf = own.buf /\ res.own = "Self"

TryOps == {"f_try_reserve", "f_try_reserve_exact"}

\* The reservation of the last try_ call can be satisfied: the bytes fit the
\* capacity already, or the allocator grants the capacity that is asked for.
C6_Satisfied(before) ==
    \/ last.a <= before.cap - Len(before.buf)
    \/ /\ last.al
       /\ GrowTo(before, last.a, last.op = "f_try_reserve_exact") <= MaxAlloc

\* C6, for one chain: f_try_reserve and f_try_reserve_exact return Ok with the
\* content unchanged and capacity >= length + additional when the reservation
\* can be satisfied and Err, never a panic or an abort, when it cannot; no
\* other method returns a Result.
C6_For(kind, val, before) ==
    /\ last.op \in TryOps =>
          /\ kind \in {"Ok", "Err"}
          /\ C6_Satisfied(before) <=> kind = "Ok"
          /\ kind = "Ok" => (/\ val.buf = before.buf
                             /\ val.cap >= Len(before.buf) + last.a
                             /\ val.cap >= before.cap)
    /\ last.op \notin TryOps => kind \notin {"Ok", "Err"}

C6_TryReserve == C6_For(res.own, own, pre.own) /\ C6_For(res.s, s, pre.s)

\* f_try_reserve had to allocate, was granted the memory and returned Ok.
C6_Witness ==
    /\ last.op = "f_try_reserve" /\ last.a = 6
    /\ pre.s.buf = StrOf(<<97, 233>>) /\ pre.s.cap = 8
    /\ res.own = "Ok" /\ res.s = "Ok" /\ s.cap = 16 /\ s.buf = pre.s.buf

\* C7: after every call that returns (its receiver, Ok or Err), in both
\* implementations, the caller still holds the buffer with its content.
C7_NeverDestroyed ==
    /\ res.own \in {"Self", "Ok", "Err"} => own.live
    /\ res.s \in {"Self", "Ok", "Err"} => s.live
    /\ res.own = "Err" => own.buf = pre.own.buf
    /\ res.s = "Err" => s.buf = pre.s.buf

\* C8 as stated, for one chain: after f_insert(idx, ch) at a boundary
\* position the character at idx is ch, the bytes before idx are unchanged,
\* the bytes formerly from idx on follow ch, and the length is one more.
C8_AsStatedFor(kind, val, before) ==
    (/\ last.op = "f_insert" /\ kind = "Self"
     /\ last.a <= Len(before.buf) /\ OnBoundary(before.buf, last.a)) =>
        /\ Len(val.buf) = Len(before.buf) + 1
        /\ CharAt(val.buf, last.a) = last.b
        /\ \A i \in 1..last.a : val.buf[i] = before.buf[i]

C8_AsStated == C8_AsStatedFor(res.own, own, pre.own) /\ C8_AsStatedFor(res.s, s, pre.s)

\* C8 amended, for one chain: f_insert(idx, ch) at a boundary position
\* returns (when the memory is there); the character at idx is then ch, the
\* bytes before idx are unchanged, the bytes formerly from idx on follow ch,
\* the length in bytes has grown by the UTF-8 width of ch and the number of
\* characters by exactly 1.
C8_For(kind, val, before) ==
    (/\ last.op = "f_insert"
     /\ last.a <= Len(before.buf) /\ OnBoundary(before.buf, last.a)) =>
        LET w == Len(last.txt) IN
        /\ (last.al \/ w <= before.cap - Len(before.buf)) => kind = "Self"
        /\ kind = "Self" =>
              /\ Len(val.buf) = Len(before.buf) + w
              /\ w = (IF last.b < 128 THEN 1 ELSE 2)
              /\ Len(CharsOf(val.buf)) = Len(CharsOf(before.buf)) + 1
              /\ CharAt(val.buf, last.a) = last.b
              /\ \A i \in 1..last.a : val.buf[i] = before.buf[i]
              /\ \A i \in (last.a + 1)..Len(before.buf) : val.buf[i + w] = before.buf[i]

C8_Insert == C8_For(res.own, own, pre.own) /\ C8_For(res.s, s, pre.s)

\* A two-byte character was inserted between two characters.
C8_Witness ==
    /\ last.op = "f_insert" /\ last.a = 1 /\ last.b = 233
    /\ pre.own.buf = StrOf(<<97, 97>>)
    /\ own.buf = StrOf(<<97, 233, 97>>) /\ s.buf = own.buf /\ res.s = "Self"

\* What the k-th call of the closure f answers, given the character ch.
C9_Answer(f, k, ch) ==
    CASE f = "not_a" -> ch # 97
      [] f = "alternate" -> k % 2 = 1
      [] OTHER -> k = 1

\* The characters cs[k] the closure f answers true for, in order.
C9_Kept(f, cs) ==
    LET ks == {k \in 1..Len(cs) : C9_Answer(f, k, cs[k])}
        nth[i \in 1..Cardinality(ks)] ==
            CHOOSE k \in ks : Cardinality({j \in ks : j < k}) = i - 1
    IN [i \in 1..Cardinality(ks) |-> cs[nth[i]]]

\* C9 as stated, for one chain: f_retain called the closure once per
\* character, first to last; the result is the characters it answered true
\* for, in order, and its length is their number.
C9_AsStatedFor(kind, val, before, seen) ==
    last.op = "f_retain" =>
        /\ kind = "Self"
        /\ seen = CharsOf(before.buf)
        /\ CharsOf(val.buf) = C9_Kept(last.f, CharsOf(before.buf))
        /\ Len(val.buf) = Len(C9_Kept(last.f, CharsOf(before.buf)))

C9_AsStated ==
    C9_AsStatedFor(res.own, own, pre.own, obs.own) /\ C9_AsStatedFor(res.s, s, pre.s, obs.s)

\* C9 amended, for one chain: as stated, with the number of characters of the
\* result, not its length in bytes, equal to the number of true answers; the
\* result is the UTF-8 encoding of the kept characters.
C9_For(kind, val, before, seen) ==
    last.op = "f_retain" =>
        /\ kind = "Self"
        /\ seen = CharsOf(before.buf)
        /\ val.buf = StrOf(C9_Kept(last.f, CharsOf(before.buf)))
        /\ CharsOf(val.buf) = C9_Kept(last.f, CharsOf(before.buf))
        /\ Len(CharsOf(val.buf)) = Len(C9_Kept(last.f, CharsOf(before.buf)))
        /\ val.cap = before.cap

C9_Retain == C9_For(res.own, own, pre.own, obs.own) /\ C9_For(res.s, s, pre.s, obs.s)

\* A closure with a counter was called on both characters of the content and
\* kept the second, a two-byte character, which moved to the front.
C9_Witness ==
    /\ last.op = "f_retain" /\ last.f = "alternate"
    /\ pre.s.buf = StrOf(<<233, 233>>) /\ pre.own.buf = pre.s.buf
    /\ s.buf = StrOf(<<233>>) /\ own.buf = s.buf
    /\ obs.s = <<233, 233>> /\ obs.own = obs.s

\* C10, for one chain: capacity >= length always; f_shrink_to(min) never
\* raises the capacity and never lowers it below max(length, min);
\* f_shrink_to_fit leaves the capacity equal to the length.
C10_For(kind, val, before) ==
    /\ val.cap >= Len(val.buf)
    /\ last.op = "f_shrink_to" =>
          /\ kind = "Self" /\ val.buf = before.buf
          /\ val.cap <= before.cap
          /\ val.cap < before.cap => val.cap >= Max(Len(val.buf), last.a)
          /\ before.cap > Max(Len(before.buf), last.a) =>
                val.cap = Max(Len(before.buf), last.a)
    /\ last.op = "f_shrink_to_fit" =>
          (kind = "Self" /\ val.buf = before.buf /\ val.cap = Len(val.buf))

C10_Capacity == C10_For(res.own, own, pre.own) /\ C10_For(res.s, s, pre.s)

\* f_shrink_to with a floor below the length stopped at the length.
C10_Witness ==
    /\ last.op = "f_shrink_to" /\ last.a = 2
    /\ pre.s.buf = StrOf(<<97, 233>>) /\ pre.s.cap = 8
    /\ s.cap = 3 /\ own.cap = 3 /\ s.buf = pre.s.buf

====
